---- MODULE Spec2Model ----
(***************************************************************************)
(* LazyLoaderService (src/src/app/lazy-loader.service.ts): the module      *)
(* cache behind load()/unload()/handle.create()/handle.destroy(), and the  *)
(* script loader loadJs().                                                 *)
(*                                                                         *)
(* JavaScript runs every function body and every promise continuation to   *)
(* completion, so each action below is one whole call or one whole         *)
(* continuation.  The host runtime (SystemJsNgModuleLoader, NgModuleRef,   *)
(* ViewContainerRef, the document) is not part of the service: where the   *)
(* service's code does not determine what the host does, the host's        *)
(* outcome is a choice made with \E in the action that calls it.           *)
(***************************************************************************)
EXTENDS Naturals, Sequences, FiniteSets, TLC

\* ---------------------------------------------------------------- bounds
MaxLoads == 3        \* load() calls issued in one behaviour
MaxModules == 3      \* moduleFactory.create() calls in one behaviour
MaxUnloads == 3      \* unload()/destroy() calls in one behaviour
MaxCreates == 1      \* handle.create() calls in one behaviour
MaxCreateLoads == 2  \* load() calls in a behaviour that also calls create()
MaxCreateUnloads == 1 \* unload() calls in a behaviour that also calls create()
MaxJsCalls == 3      \* loadJs() calls in one behaviour
MaxFrameJsCalls == 1 \* loadJs() calls in a behaviour that also calls load()

\* ---------------------------------------------------------------- inputs
\* (moduleName, moduleFilename) pairs handed to load().  Two of them differ
\* only in where the "#" falls, one names a module without the
\* creatableComponents convention.
LoadArgs ==
  { <<"Lazy", "b">>, <<"Lazy", "b#m">>, <<"m#Lazy", "b">>, <<"Bare", "b">> }

\* component names handed to handle.create(): one declared by the modules,
\* one declared nowhere, one that every plain object inherits
ComponentTypes == { "LazyComponent", "Missing", "toString" }

\* viewRef argument of create(): 0 is "omitted", 1 is a ViewContainerRef
ViewRefs == { 0, 1 }

\* script URLs handed to loadJs()
ScriptUrls == { "a.js", "j.js" }

\* ------------------------------------------------------- pure helpers
\* let moduleURL = moduleFilename + "#" + moduleName
moduleURL(moduleName, moduleFilename) == moduleFilename \o "#" \o moduleName

ModuleURLs == { moduleURL(a[1], a[2]) : a \in LoadArgs }

\* (<any>moduleFactory.moduleType).creatableComponents of the module the host
\* resolves for a URL: TRUE when the module follows the convention
HasCreatableComponents(url) == url # moduleURL("Bare", "b")

\* Object.keys( entryComponents ): the names the module declares creatable
CreatableComponents(url) == { "LazyComponent" }

\* names every plain object ({}) answers through Object.prototype
ObjectPrototypeKeys == { "toString" }

\* a lookup that answers every name with an entry
compFactoryLookupAny(url, componentType) == "entry"

\* compFactory[componentType] on the object built by Object.assign( {}, ... ):
\* "entry" is an own { type, factory } record, "inherited" a value of
\* Object.prototype (its .factory is undefined), "undefined" no property
compFactoryLookup(url, componentType) ==
  IF componentType \in CreatableComponents(url) THEN "entry"
  ELSE IF componentType \in ObjectPrototypeKeys THEN "inherited"
  ELSE "undefined"

\* moduleBundle.name += "-unloaded"
UnloadedName(name) == name \o "-unloaded"

\* ---------------------------------------------------------------- state
VARIABLES
  cache,          \* this.cache: moduleURL -> bundle (0: no such property)
  bundles,        \* every moduleBundle object built by load(), by identity
  moduleRefs,     \* every host module instance made by moduleFactory.create
  calls,          \* the load() calls waiting for the host's promise
  issued,         \* number of load() calls made
  lastLoad,       \* the load() call that came to its end most recently:
                  \* st "resolved" (rs called with res) or "hung" (no code
                  \* is left that could call rs)
  infoLog,        \* console.info lines written by load()
  comps,          \* component instances handed out by create()
  lastUnload,     \* the most recent unload()/destroy() call and its outcome
  lastCreate,     \* the most recent create() call and its outcome
  lastResolved,   \* history: per arguments, the handle the latest load()
                  \* resolved with since the last unload of its key
  removedKey,     \* history: per key, the handle whose unload removed the
                  \* entry, until a load() of that key resolves
  removedArgs,    \* history: the same per arguments, until a load() with
                  \* those arguments resolves
  loadedLibraries,\* this.loadedLibraries: url -> script element (0: none)
  body,           \* document.body: the script elements appended by loadJs
  jsCalls,        \* every loadJs() call: its url and its promise
  hostLoads,      \* history: number of this.loader.load( moduleURL ) calls
  cacheWrites     \* history: number of this.cache[moduleURL] = moduleBundle

loaderVars == << cache, bundles, moduleRefs, calls, issued, lastLoad,
                 infoLog, comps,
                 lastUnload, lastCreate, lastResolved, removedKey,
                 removedArgs, hostLoads, cacheWrites >>
jsVars == << loadedLibraries, body, jsCalls >>
vars == << cache, bundles, moduleRefs, calls, issued, lastLoad, infoLog,
           comps, lastUnload,
           lastCreate, lastResolved, removedKey, removedArgs,
           loadedLibraries, body, jsCalls, hostLoads, cacheWrites >>

NoLoad == [ n |-> 0, moduleName |-> "", moduleFilename |-> "", st |-> "",
            res |-> 0, how |-> "", expect |-> 0, first |-> FALSE,
            afterKey |-> 0, afterArgs |-> 0 ]
NoUnload == [ n |-> 0, bundle |-> 0, via |-> "", acted |-> FALSE,
              threw |-> FALSE ]
NoCreate == [ n |-> 0, bundle |-> 0, componentType |-> "", viewRef |-> 0,
              threw |-> FALSE ]

\* cache:any = {};  private loadedLibraries = {};
Init ==
  /\ cache = [ u \in ModuleURLs |-> 0 ]
  /\ bundles = << >>
  /\ moduleRefs = << >>
  /\ calls = << >>
  /\ issued = 0
  /\ lastLoad = NoLoad
  /\ infoLog = << >>
  /\ comps = << >>
  /\ lastUnload = NoUnload
  /\ lastCreate = NoCreate
  /\ lastResolved = [ a \in LoadArgs |-> 0 ]
  /\ removedKey = [ u \in ModuleURLs |-> 0 ]
  /\ removedArgs = [ a \in LoadArgs |-> 0 ]
  /\ loadedLibraries = [ u \in ScriptUrls |-> 0 ]
  /\ body = << >>
  /\ jsCalls = << >>
  /\ hostLoads = 0
  /\ cacheWrites = 0

\* a key that leaves the file name out
CallURLByName(c) == moduleURL(c.moduleName, "b")

\* const moduleURL = moduleFilename + "#" + moduleName, of call c
CallURL(c) == moduleURL(c.moduleName, c.moduleFilename)

\* a continuation that never finds the key cached
CacheHitNever(url) == FALSE

\* if (this.cache[moduleURL]): a bundle is an object, so the test is "the
\* key has an entry"
CacheHit(url) == cache[url] # 0

CallArgs(c) == << c.moduleName, c.moduleFilename >>

\* calls without position i: a promise that settled or can no longer settle
\* takes no further part
Without(i) == SubSeq(calls, 1, i - 1) \o SubSeq(calls, i + 1, Len(calls))

\* the record lastLoad keeps of a call that has just come to its end
Finished(c, st, res, how) ==
  [ n |-> lastLoad.n + 1,
    moduleName |-> c.moduleName, moduleFilename |-> c.moduleFilename,
    st |-> st, res |-> res, how |-> how, expect |-> c.expect,
    first |-> c.first,
    afterKey |-> removedKey[CallURL(c)],
    afterArgs |-> removedArgs[CallArgs(c)] ]

\* ------------------------------------------------------------------ load
\* load( moduleName, moduleFilename ): the promise executor calls
\* this.loader.load( moduleURL ) inside try/catch.  The host either throws
\* there, and the catch resolves the promise with undefined, or hands back
\* its own promise, and the call waits for one of the continuations below.
load(moduleName, moduleFilename) ==
  LET c == [ moduleName |-> moduleName, moduleFilename |-> moduleFilename,
             expect |-> lastResolved[<< moduleName, moduleFilename >>],
             first |-> cache[moduleURL(moduleName, moduleFilename)] = 0 ]
  IN
  /\ issued < MaxLoads
  /\ issued' = issued + 1
  /\ hostLoads' = hostLoads + 1
  /\ \E hostThrows \in BOOLEAN :
       IF hostThrows
       THEN /\ lastLoad' = Finished(c, "resolved", 0, "catch")
            /\ calls' = calls
       ELSE /\ calls' = Append(calls, c)
            /\ lastLoad' = lastLoad
  /\ UNCHANGED << cache, bundles, moduleRefs, infoLog, comps, lastUnload,
                  lastCreate, lastResolved, removedKey, removedArgs,
                  cacheWrites >>
  /\ UNCHANGED jsVars

\* history kept when the continuation of call i resolves with bundle b
ResolvedHistory(i, b) ==
  /\ lastResolved' = [ lastResolved EXCEPT ![CallArgs(calls[i])] = b ]
  /\ removedKey' = [ removedKey EXCEPT ![CallURL(calls[i])] = 0 ]
  /\ removedArgs' = [ removedArgs EXCEPT ![CallArgs(calls[i])] = 0 ]

\* rs( b ) in the continuation of call i
Settle(i, b, how) ==
  /\ lastLoad' = Finished(calls[i], "resolved", b, how)
  /\ calls' = Without(i)

\* a continuation that logs before it tests the cache
InfoAfterHitLogged(url) == Append(infoLog, url)

\* the console after the continuation found the key cached: console.info
\* comes after the early return
InfoAfterHit(url) == infoLog

\* .then((moduleFactory) => { if (this.cache[moduleURL]) return rs( ... ) })
loadThenCached(i) ==
  /\ i \in 1..Len(calls)
  /\ CacheHit(CallURL(calls[i]))
  /\ Settle(i, cache[CallURL(calls[i])], "cached")
  /\ ResolvedHistory(i, cache[CallURL(calls[i])])
  /\ infoLog' = InfoAfterHit(CallURL(calls[i]))
  /\ UNCHANGED << cache, bundles, moduleRefs, comps, lastUnload,
                  lastCreate, issued, hostLoads, cacheWrites >>
  /\ UNCHANGED jsVars

\* the rest of the .then continuation on a cache miss: console.info,
\* moduleFactory.create, the component factories, the bundle, the cache write
loadThenCreate(i) ==
  /\ i \in 1..Len(calls)
  /\ ~ CacheHit(CallURL(calls[i]))
  /\ Len(moduleRefs) < MaxModules
  /\ HasCreatableComponents(CallURL(calls[i]))
  /\ infoLog' = Append(infoLog, CallURL(calls[i]))
  /\ moduleRefs' = Append(moduleRefs,
       [ url |-> CallURL(calls[i]), destroyCalls |-> 0 ])
  /\ bundles' = Append(bundles,
       [ name |-> calls[i].moduleName, url |-> CallURL(calls[i]),
         factory |-> TRUE, moduleRef |-> Len(moduleRefs) + 1,
         unloaded |-> FALSE, moduleName |-> calls[i].moduleName,
         moduleFilename |-> calls[i].moduleFilename,
         unloadCalled |-> FALSE ])
  /\ cache' = [ cache EXCEPT ![CallURL(calls[i])] = Len(bundles) + 1 ]
  /\ cacheWrites' = cacheWrites + 1
  /\ Settle(i, Len(bundles) + 1, "created")
  /\ ResolvedHistory(i, Len(bundles) + 1)
  /\ UNCHANGED << comps, lastUnload, lastCreate, issued, hostLoads >>
  /\ UNCHANGED jsVars

\* the same continuation for a module without creatableComponents:
\* Object.keys( undefined ) throws after moduleFactory.create; the exception
\* rejects the promise .then returned, which nobody holds, and rs is never
\* called
loadThenThrows(i) ==
  /\ i \in 1..Len(calls)
  /\ ~ CacheHit(CallURL(calls[i]))
  /\ Len(moduleRefs) < MaxModules
  /\ ~ HasCreatableComponents(CallURL(calls[i]))
  /\ infoLog' = Append(infoLog, CallURL(calls[i]))
  /\ moduleRefs' = Append(moduleRefs,
       [ url |-> CallURL(calls[i]), destroyCalls |-> 0 ])
  /\ lastLoad' = Finished(calls[i], "hung", 0, "then-threw")
  /\ calls' = Without(i)
  /\ UNCHANGED << cache, bundles, comps, lastUnload, lastCreate,
                  lastResolved, removedKey, removedArgs, issued,
                  hostLoads, cacheWrites >>
  /\ UNCHANGED jsVars

\* the host's promise rejects: .then has no rejection handler and the
\* try/catch has long been left, so rs is never called
loadRejected(i) ==
  /\ i \in 1..Len(calls)
  /\ lastLoad' = Finished(calls[i], "hung", 0, "rejected")
  /\ calls' = Without(i)
  /\ UNCHANGED << cache, bundles, moduleRefs, infoLog, comps, lastUnload,
                  lastCreate, lastResolved, removedKey, removedArgs, issued,
                  hostLoads, cacheWrites >>
  /\ UNCHANGED jsVars

\* ---------------------------------------------------------------- unload
\* if (this.cache[moduleBundle.url]): the guard looks the key up, it does
\* not compare the entry with moduleBundle
UnloadGuard(b) == cache[bundles[b].url] # 0

\* an unload that forgets to delete the entry
DeleteEntryKept(url) == cache

\* delete this.cache[moduleBundle.url]
DeleteEntry(url) == [ cache EXCEPT ![url] = 0 ]

\* history: an unload of a key ends the "no unload in between" of its loads
ForgetResolved(url) ==
  /\ lastResolved' = [ a \in LoadArgs |->
       IF moduleURL(a[1], a[2]) = url THEN 0 ELSE lastResolved[a] ]
  /\ calls' = [ i \in 1..Len(calls) |->
       IF CallURL(calls[i]) = url
       THEN [ calls[i] EXCEPT !.expect = 0 ] ELSE calls[i] ]

\* async unload( moduleBundle ), reached as loader.unload( handle ) or as
\* handle.destroy().  The body has no await: it runs in one piece, and an
\* exception inside it rejects the promise unload returns.
\* moduleBundle.moduleRef.destroy() on an instance that was destroyed before
\* is the host's business: it may throw (hostThrows) or return.
unloadBody(b, via, hostThrows) ==
  LET url == bundles[b].url
      ref == bundles[b].moduleRef
      stop == hostThrows /\ moduleRefs[ref].destroyCalls > 0
  IN
  /\ lastUnload' = [ n |-> lastUnload.n + 1, bundle |-> b, via |-> via,
                     acted |-> UnloadGuard(b),
                     threw |-> UnloadGuard(b) /\ stop ]
  /\ ForgetResolved(url)
  /\ IF UnloadGuard(b)
     THEN /\ bundles' = [ bundles EXCEPT ![b] =
                [ @ EXCEPT !.name = UnloadedName(@),
                           !.unloaded = TRUE,
                           !.factory = IF stop THEN @ ELSE FALSE,
                           !.unloadCalled = TRUE ] ]
          /\ moduleRefs' = [ moduleRefs EXCEPT ![ref].destroyCalls = @ + 1 ]
          /\ cache' = IF stop THEN cache ELSE DeleteEntry(url)
          /\ removedKey' = IF stop THEN removedKey
                           ELSE [ removedKey EXCEPT ![url] = b ]
          /\ removedArgs' = IF stop THEN removedArgs
                            ELSE [ a \in LoadArgs |->
                                   IF moduleURL(a[1], a[2]) = url THEN b
                                   ELSE removedArgs[a] ]
     ELSE /\ bundles' = [ bundles EXCEPT ![b].unloadCalled = TRUE ]
          /\ UNCHANGED << moduleRefs, cache, removedKey, removedArgs >>
  /\ UNCHANGED << infoLog, comps, lastCreate, issued, lastLoad,
                  hostLoads, cacheWrites >>
  /\ UNCHANGED jsVars

unload(b) ==
  /\ b \in 1..Len(bundles)
  /\ lastUnload.n < MaxUnloads
  /\ \E hostThrows \in BOOLEAN : unloadBody(b, "unload", hostThrows)

\* destroy: function() { ths.unload( this ); }
destroy(b) ==
  /\ b \in 1..Len(bundles)
  /\ lastUnload.n < MaxUnloads
  /\ \E hostThrows \in BOOLEAN : unloadBody(b, "destroy", hostThrows)

\* ---------------------------------------------------------------- create
\* a ternary with its branches swapped
CreatedThroughSwapped(viewRef) ==
  IF viewRef # 0 THEN "injector" ELSE "container"

\* viewRef ? viewRef.createComponent( ... ) : ....factory.create( this.inj )
CreatedThrough(viewRef) ==
  IF viewRef # 0 THEN "container" ELSE "injector"

\* create: (componentType, viewRef) => viewRef
\*   ? viewRef.createComponent( compFactory[componentType].factory )
\*   : compFactory[componentType].factory.create( this.inj )
\* compFactory is the constant the arrow function closed over, not the
\* bundle's factory property.  Reading .factory of undefined throws; an
\* inherited value has no .factory, so .create of undefined throws and the
\* container is handed undefined and has no factory to create from.  A
\* factory bound to a destroyed module instance is the host's business
\* (hostThrows).
CreateThrows(b, componentType, hostThrows) ==
  \/ compFactoryLookup(bundles[b].url, componentType) # "entry"
  \/ hostThrows /\ moduleRefs[bundles[b].moduleRef].destroyCalls > 0

createBody(b, componentType, viewRef, hostThrows) ==
  /\ lastCreate' = [ n |-> lastCreate.n + 1, bundle |-> b,
                     componentType |-> componentType, viewRef |-> viewRef,
                     threw |-> CreateThrows(b, componentType, hostThrows) ]
  /\ comps' = IF CreateThrows(b, componentType, hostThrows) THEN comps
              ELSE Append(comps,
                     [ bundle |-> b, componentType |-> componentType,
                       through |-> CreatedThrough(viewRef),
                       container |->
                         IF CreatedThrough(viewRef) = "container"
                         THEN viewRef ELSE 0,
                       moduleRef |-> bundles[b].moduleRef,
                       moduleDestroyed |->
                         moduleRefs[bundles[b].moduleRef].destroyCalls > 0 ])
  /\ UNCHANGED << cache, bundles, moduleRefs, calls, issued, lastLoad,
                  infoLog, lastUnload, lastResolved, removedKey,
                  removedArgs, hostLoads, cacheWrites >>
  /\ UNCHANGED jsVars

create(b, componentType, viewRef) ==
  /\ b \in 1..Len(bundles)
  /\ lastCreate.n < MaxCreates
  /\ \E hostThrows \in BOOLEAN :
       createBody(b, componentType, viewRef, hostThrows)

\* ---------------------------------------------------------------- loadJs
\* public loadJs( url ): the promise executor either finds the url in
\* loadedLibraries and returns (the executor's return value is dropped and
\* rs is never called, so the promise the caller holds never settles), or
\* creates a script element, hooks onload and appends it to document.body.
\* history: hit is the handle cached for the url when the call was made,
\* inflight the element still loading for the same url at that moment.
LoadingScript(url) ==
  IF \E s \in 1..Len(body) : body[s].src = url /\ body[s].state = "loading"
  THEN CHOOSE s \in 1..Len(body) :
         /\ body[s].src = url /\ body[s].state = "loading"
         /\ \A t \in 1..Len(body) :
              body[t].src = url /\ body[t].state = "loading" => s <= t
  ELSE 0

LibraryLoaded(url) == loadedLibraries[url] # 0

\* an executor that caches the element as soon as it is appended
LibrariesAfterAppendEager(url, s) == [ loadedLibraries EXCEPT ![url] = s ]

\* loadedLibraries after the executor appended element s: the executor only
\* hooks onload, the map is written when the load event fires
LibrariesAfterAppend(url, s) == loadedLibraries

loadJs(url) ==
  /\ Len(jsCalls) < MaxJsCalls
  /\ IF LibraryLoaded(url)
     THEN /\ jsCalls' = Append(jsCalls,
               [ url |-> url, st |-> "hung", res |-> 0, script |-> 0,
                 hit |-> loadedLibraries[url], inflight |-> 0 ])
          /\ body' = body
          /\ loadedLibraries' = loadedLibraries
     ELSE /\ body' = Append(body,
               [ src |-> url, type |-> "text/javascript",
                 state |-> "loading" ])
          /\ jsCalls' = Append(jsCalls,
               [ url |-> url, st |-> "pending", res |-> 0,
                 script |-> Len(body) + 1,
                 hit |-> 0, inflight |-> LoadingScript(url) ])
          /\ loadedLibraries' = LibrariesAfterAppend(url, Len(body) + 1)
  /\ UNCHANGED loaderVars

\* script.onload = () => { this.loadedLibraries[url] = script; rs( script ) }
scriptOnload(s) ==
  /\ s \in 1..Len(body)
  /\ body[s].state = "loading"
  /\ body' = [ body EXCEPT ![s].state = "loaded" ]
  /\ loadedLibraries' = [ loadedLibraries EXCEPT ![body[s].src] = s ]
  /\ jsCalls' = [ j \in 1..Len(jsCalls) |->
       IF jsCalls[j].script = s
       THEN [ jsCalls[j] EXCEPT !.st = "resolved", !.res = s ]
       ELSE jsCalls[j] ]
  /\ UNCHANGED loaderVars

\* the fetch fails: the browser fires error, never load; the element has no
\* onerror, so nothing of the service runs
scriptError(s) ==
  /\ s \in 1..Len(body)
  /\ body[s].state = "loading"
  /\ body' = [ body EXCEPT ![s].state = "failed" ]
  /\ UNCHANGED << loadedLibraries, jsCalls >>
  /\ UNCHANGED loaderVars

\* -------------------------------------------------------- specifications
\* load, unload and destroy.  create() is left to SpecCreate: it writes
\* nothing that load, unload or destroy read.
Next ==
  \/ \E a \in LoadArgs : load(a[1], a[2])
  \/ \E i \in 1..MaxLoads : loadThenCached(i)
  \/ \E i \in 1..MaxLoads : loadThenCreate(i)
  \/ \E i \in 1..MaxLoads : loadThenThrows(i)
  \/ \E i \in 1..MaxLoads : loadRejected(i)
  \/ \E b \in 1..MaxModules : unload(b)
  \/ \E b \in 1..MaxModules : destroy(b)

Spec == Init /\ [][Next]_vars

\* the same with create(), over fewer load() and unload() calls
loadFew(moduleName, moduleFilename) ==
  /\ issued < MaxCreateLoads
  /\ load(moduleName, moduleFilename)

unloadFew(b) ==
  /\ lastUnload.n < MaxCreateUnloads
  /\ unload(b)

destroyFew(b) ==
  /\ lastUnload.n < MaxCreateUnloads
  /\ destroy(b)

NextCreate ==
  \/ \E a \in LoadArgs : loadFew(a[1], a[2])
  \/ \E i \in 1..MaxLoads : loadThenCached(i)
  \/ \E i \in 1..MaxLoads : loadThenCreate(i)
  \/ \E i \in 1..MaxLoads : loadThenThrows(i)
  \/ \E i \in 1..MaxLoads : loadRejected(i)
  \/ \E b \in 1..MaxModules : unloadFew(b)
  \/ \E b \in 1..MaxModules : destroyFew(b)
  \/ \E b \in 1..MaxModules, t \in ComponentTypes, v \in ViewRefs :
       create(b, t, v)

SpecCreate == Init /\ [][NextCreate]_vars

\* the script loader
NextJs ==
  \/ \E u \in ScriptUrls : loadJs(u)
  \/ \E s \in 1..MaxJsCalls : scriptOnload(s)
  \/ \E s \in 1..MaxJsCalls : scriptError(s)

SpecJs == Init /\ [][NextJs]_vars

\* the whole service: load, unload, destroy, create and loadJs together,
\* over few calls of each, for one module that works and one that has no
\* creatableComponents, and for a declared component name
FrameLoadArgs == { << "Lazy", "b" >>, << "Bare", "b" >> }
FrameComponentTypes == { "LazyComponent" }

loadJsFew(url) ==
  /\ Len(jsCalls) < MaxFrameJsCalls
  /\ loadJs(url)

NextAll ==
  \/ \E a \in FrameLoadArgs : loadFew(a[1], a[2])
  \/ \E i \in 1..MaxLoads : loadThenCached(i)
  \/ \E i \in 1..MaxLoads : loadThenCreate(i)
  \/ \E i \in 1..MaxLoads : loadThenThrows(i)
  \/ \E i \in 1..MaxLoads : loadRejected(i)
  \/ \E b \in 1..MaxModules : unloadFew(b)
  \/ \E b \in 1..MaxModules : destroyFew(b)
  \/ \E b \in 1..MaxModules, t \in FrameComponentTypes, v \in ViewRefs :
       create(b, t, v)
  \/ \E u \in ScriptUrls : loadJsFew(u)
  \/ \E s \in 1..MaxJsCalls : scriptOnload(s)
  \/ \E s \in 1..MaxJsCalls : scriptError(s)

SpecAll == Init /\ [][NextAll]_vars

TypeOK ==
  /\ \A u \in ModuleURLs : cache[u] \in 0..Len(bundles)
  /\ lastLoad.st \in { "", "resolved", "hung" }
  /\ Len(calls) <= issued
  /\ \A u \in ScriptUrls : loadedLibraries[u] \in 0..Len(body)

\* ================================================================ claims
ThenResolved == lastLoad.st = "resolved" /\ lastLoad.how \in { "cached", "created" }
IsUnloadStep == lastUnload'.n = lastUnload.n + 1
IsCreateStep == lastCreate'.n = lastCreate.n + 1
Live(b) ==
  /\ ~ bundles[b].unloaded
  /\ moduleRefs[bundles[b].moduleRef].destroyCalls = 0

\* C1: a load() issued after an earlier load() with the same arguments has
\* resolved with a handle, with no unload of that key since, resolves (when
\* the host resolves its module) with that same handle, taken from the
\* cache: it builds no second handle.
C1_SequentialLoadSameHandle ==
  ThenResolved /\ lastLoad.expect # 0
    => lastLoad.res = lastLoad.expect /\ lastLoad.how = "cached"

C1_Witness ==
  /\ ThenResolved
  /\ lastLoad.expect # 0
  /\ lastLoad.res = lastLoad.expect

\* C2: every cache key has at most one live handle (built by load, not
\* marked unloaded, module instance not destroyed) in every reachable state.
C2_OneLiveHandlePerKey ==
  \A u \in ModuleURLs :
    Cardinality({ b \in 1..Len(bundles) : bundles[b].url = u /\ Live(b) })
      <= 1

\* C3: unload of a handle that is already marked unloaded is a no-op: no
\* exception, the cache, the handle's name and flags and the module
\* instances stay as they were, destroy() is not called again.
C3_SecondUnloadNoOp ==
  [][ (IsUnloadStep /\ bundles[lastUnload'.bundle].unloaded)
        => /\ ~ lastUnload'.threw
           /\ cache' = cache
           /\ bundles'[lastUnload'.bundle].name
                = bundles[lastUnload'.bundle].name
           /\ bundles'[lastUnload'.bundle].unloaded
                = bundles[lastUnload'.bundle].unloaded
           /\ bundles'[lastUnload'.bundle].factory
                = bundles[lastUnload'.bundle].factory
           /\ moduleRefs' = moduleRefs ]_vars

\* C4: a load() whose module resolution failed (the host threw, its promise
\* rejected, or the continuation threw) has resolved with undefined once
\* none of its code is left to run.
C4_FailedLoadResolvesUndefined ==
  lastLoad.how \in { "catch", "rejected", "then-threw" }
    => lastLoad.st = "resolved" /\ lastLoad.res = 0

\* C5: unload()/destroy() of a handle that is not marked unloaded leaves the
\* handle's key without cache entry, marks the handle unloaded and calls
\* destroy() on the handle's module instance.
C5_DestroyUnloads ==
  [][ (IsUnloadStep /\ ~ bundles[lastUnload'.bundle].unloaded)
        => /\ cache'[bundles[lastUnload'.bundle].url] = 0
           /\ bundles'[lastUnload'.bundle].unloaded
           /\ moduleRefs'[bundles[lastUnload'.bundle].moduleRef].destroyCalls
                = moduleRefs[bundles[lastUnload'.bundle].moduleRef]
                    .destroyCalls + 1 ]_vars

\* C6 as stated: after an unload removed the cache entry, the next load()
\* with the same (moduleName, moduleFilename) to resolve with a handle
\* instantiates the module and resolves with a handle other than the
\* unloaded one.
C6_ReloadSameArgsCreates ==
  ThenResolved /\ lastLoad.afterArgs # 0
    => lastLoad.how = "created" /\ lastLoad.res # lastLoad.afterArgs

\* C6 amended: after an unload removed the cache entry, the next load() with
\* the same cache key (moduleFilename + "#" + moduleName) to resolve with a
\* handle instantiates the module and resolves with a handle other than the
\* unloaded one.
C6_ReloadSameKeyCreates ==
  ThenResolved /\ lastLoad.afterKey # 0
    => lastLoad.how = "created" /\ lastLoad.res # lastLoad.afterKey

C6_Witness ==
  /\ ThenResolved
  /\ lastLoad.afterKey # 0
  /\ lastLoad.how = "created"
  /\ bundles[lastLoad.afterKey].unloaded

\* C7: a loadJs( url ) made once the url's script has loaded appends no
\* script element and yields the cached script handle.
C7_LoadedScriptIsReturned ==
  \A j \in 1..Len(jsCalls) :
    jsCalls[j].hit # 0
      => /\ jsCalls[j].script = 0
         /\ jsCalls[j].st = "resolved"
         /\ jsCalls[j].res = jsCalls[j].hit

\* C8: a loadJs( url ) made while an earlier call's script for the same url
\* is still loading appends no second element and waits for that same
\* script.
C8_ConcurrentLoadJsOneScript ==
  \A j \in 1..Len(jsCalls) :
    jsCalls[j].inflight # 0
      => /\ jsCalls[j].script = jsCalls[j].inflight
         /\ Cardinality({ s \in 1..Len(body) :
                            /\ body[s].src = jsCalls[j].url
                            /\ s >= jsCalls[j].inflight
                            /\ s <= jsCalls[j].script }) = 1

\* C9: a handle built by load(moduleName, moduleFilename) carries the name
\* moduleName and is not marked unloaded; right after the first unload of
\* that handle its name is moduleName followed by "-unloaded" and it is
\* marked unloaded.
C9_NameAndUnloadedFlag ==
  [][ /\ \A b \in 1..Len(bundles') :
           b > Len(bundles)
             => /\ bundles'[b].name = bundles'[b].moduleName
                /\ ~ bundles'[b].unloaded
      /\ (IsUnloadStep /\ ~ bundles[lastUnload'.bundle].unloadCalled)
           => /\ bundles'[lastUnload'.bundle].name
                   = bundles[lastUnload'.bundle].moduleName \o "-unloaded"
              /\ bundles'[lastUnload'.bundle].unloaded ]_vars

\* C10: create() of a name the module does not declare creatable throws,
\* with or without a container: no component is made or attached and the
\* cache stays as it was.
C10_CreateUndeclaredThrows ==
  [][ ( /\ IsCreateStep
        /\ lastCreate'.componentType
             \notin CreatableComponents(bundles[lastCreate'.bundle].url) )
        => /\ lastCreate'.threw
           /\ comps' = comps
           /\ cache' = cache ]_vars

C10_Witness ==
  /\ lastCreate.n > 0
  /\ lastCreate.componentType
       \notin CreatableComponents(bundles[lastCreate.bundle].url)
  /\ lastCreate.viewRef # 0
  /\ lastCreate.threw
  /\ comps = << >>

\* C11: create() of a declared name with a container makes the component
\* through that container, attached to it, and not through the injector;
\* without a container it makes the component through the loader's
\* injector, attached to nothing.  (On a handle whose module instance was
\* destroyed the host may refuse; then nothing is made.)
C11_CreateAttachesToContainer ==
  [][ ( /\ IsCreateStep
        /\ lastCreate'.componentType
             \in CreatableComponents(bundles[lastCreate'.bundle].url) )
        => IF lastCreate'.threw
           THEN /\ comps' = comps
                /\ moduleRefs[bundles[lastCreate'.bundle].moduleRef]
                     .destroyCalls > 0
           ELSE /\ Len(comps') = Len(comps) + 1
                /\ SubSeq(comps', 1, Len(comps)) = comps
                /\ comps'[Len(comps')].bundle = lastCreate'.bundle
                /\ comps'[Len(comps')].componentType
                     = lastCreate'.componentType
                /\ IF lastCreate'.viewRef # 0
                   THEN /\ comps'[Len(comps')].through = "container"
                        /\ comps'[Len(comps')].container = lastCreate'.viewRef
                   ELSE /\ comps'[Len(comps')].through = "injector"
                        /\ comps'[Len(comps')].container = 0 ]_vars

C11_Witness ==
  /\ lastCreate.n > 0
  /\ ~ lastCreate.threw
  /\ lastCreate.viewRef # 0
  /\ comps # << >>
  /\ comps[Len(comps)].through = "container"
  /\ comps[Len(comps)].container = lastCreate.viewRef

\* history: the loadJs call that appended script element s
CallOfScript(s) == CHOOSE j \in 1..Len(jsCalls) : jsCalls[j].script = s

\* C12 as stated: once the fetch of a script appended by loadJs( url ) has
\* failed, that call's promise stays unsettled and url is not in
\* loadedLibraries; every url in loadedLibraries has had its load event.
C12_FailedScriptUrlNeverRecorded ==
  /\ \A s \in 1..Len(body) :
       body[s].state = "failed"
         => /\ jsCalls[CallOfScript(s)].st = "pending"
            /\ loadedLibraries[body[s].src] = 0
  /\ \A u \in ScriptUrls :
       loadedLibraries[u] # 0 => body[loadedLibraries[u]].state = "loaded"

\* C12 amended: once the fetch of a script appended by loadJs( url ) has
\* failed, that call's promise stays unsettled and that element is never
\* the one loadedLibraries holds for url (another call's element for the
\* same url can still load and be recorded); every url in loadedLibraries
\* holds an element with that src whose load event has fired.
C12_FailedScriptNeverRecorded ==
  /\ \A s \in 1..Len(body) :
       body[s].state = "failed"
         => /\ jsCalls[CallOfScript(s)].st = "pending"
            /\ jsCalls[CallOfScript(s)].res = 0
            /\ loadedLibraries[body[s].src] # s
  /\ \A u \in ScriptUrls :
       loadedLibraries[u] # 0
         => /\ body[loadedLibraries[u]].state = "loaded"
            /\ body[loadedLibraries[u]].src = u

C12_Witness ==
  \E s \in 1..Len(body) :
    /\ body[s].state = "failed"
    /\ jsCalls[CallOfScript(s)].st = "pending"
    /\ loadedLibraries[body[s].src] = 0

\* history: no unload() or destroy() call has been made so far
NoUnloadInvolved == lastUnload.n = 0

\* the host module instances made for key url
Instantiated(url) == { r \in 1..Len(moduleRefs) : moduleRefs[r].url = url }

IsCachedStep == lastLoad'.n = lastLoad.n + 1 /\ lastLoad'.how = "cached"

\* C14 as stated: every load() call has made one host resolution call, and
\* the number of host module instantiations and the number of log lines
\* both equal the number of cache insertions.
C14_InstantiationsEqualInsertions ==
  /\ hostLoads = issued
  /\ Len(moduleRefs) = cacheWrites
  /\ Len(infoLog) = cacheWrites

\* the instantiations of modules without creatableComponents: their
\* continuation throws after moduleFactory.create
ThrewAfterCreate ==
  { r \in 1..Len(moduleRefs) : ~ HasCreatableComponents(moduleRefs[r].url) }

\* C14 amended: every load() call makes one host resolution call, also
\* when its key is cached; a load whose continuation finds the key cached
\* resolves with the cached handle, instantiates nothing and logs nothing;
\* the number of instantiations always equals the number of log lines, and
\* exceeds the number of cache insertions by the number of continuations
\* that threw after moduleFactory.create.
C14_InstantiationsEqualLogLines ==
  /\ [](/\ hostLoads = issued
        /\ Len(moduleRefs) = Len(infoLog)
        /\ Len(moduleRefs) = cacheWrites + Cardinality(ThrewAfterCreate))
  /\ [][ IsCachedStep
           => /\ lastLoad'.st = "resolved"
              /\ lastLoad'.res = cache[moduleURL(lastLoad'.moduleName,
                                                 lastLoad'.moduleFilename)]
              /\ lastLoad'.res # 0
              /\ moduleRefs' = moduleRefs
              /\ infoLog' = infoLog
              /\ cacheWrites' = cacheWrites
              /\ hostLoads' = hostLoads ]_vars

\* a load issued on a cached key has ended with the cached handle, and a
\* continuation has thrown after instantiating
C14_Witness ==
  /\ lastLoad.how = "cached"
  /\ ~ lastLoad.first
  /\ hostLoads = issued
  /\ hostLoads > cacheWrites
  /\ Cardinality(ThrewAfterCreate) > 0
  /\ cacheWrites > 0

\* C15: an existing cache entry changes only in a step of unload (called
\* directly or through handle.destroy()), which removes the entry of the
\* key of the handle it was given; no step of load (resolved from the cache,
\* resolved with a new handle, or failed), of create or of loadJs removes or
\* replaces an existing entry.
C15_OnlyUnloadRemovesEntry ==
  [][ \A u \in ModuleURLs :
        cache[u] # 0 /\ cache'[u] # cache[u]
          => /\ IsUnloadStep
             /\ lastUnload'.via \in { "unload", "destroy" }
             /\ bundles[lastUnload'.bundle].url = u
             /\ cache'[u] = 0 ]_vars

\* an entry that is still there after a load() of its key resolved from
\* the cache, a create() and a loadJs() whose script loaded
C15_Witness ==
  /\ lastLoad.how = "cached"
  /\ cache[moduleURL(lastLoad.moduleName, lastLoad.moduleFilename)]
       = lastLoad.res
  /\ lastLoad.res # 0
  /\ lastCreate.n > 0
  /\ \E u \in ScriptUrls : loadedLibraries[u] # 0
  /\ lastUnload.n = 0

\* history: the step ends a load() by resolving its promise with a handle
IsResolveStep ==
  /\ lastLoad'.n = lastLoad.n + 1
  /\ lastLoad'.st = "resolved"
  /\ lastLoad'.res # 0

\* C16: every handle the cache holds under a key has that key as its url,
\* is not marked unloaded, still has its factory mapping and a module
\* instance that was not destroyed; so a load() never resolves with a handle
\* that is unloaded at the moment it resolves.
C16_CachedHandleIntact ==
  /\ [](\A u \in ModuleURLs :
          cache[u] # 0
            => /\ bundles[cache[u]].url = u
               /\ ~ bundles[cache[u]].unloaded
               /\ bundles[cache[u]].factory
               /\ moduleRefs[bundles[cache[u]].moduleRef].destroyCalls = 0)
  /\ [][ IsResolveStep
           => /\ ~ bundles'[lastLoad'.res].unloaded
              /\ bundles'[lastLoad'.res].factory
              /\ moduleRefs'[bundles'[lastLoad'.res].moduleRef]
                   .destroyCalls = 0 ]_vars

\* a key was unloaded and loaded again, a second unload of the stale handle
\* was refused by the host, and a load() has then resolved from the cache
C16_Witness ==
  /\ lastLoad.how = "cached"
  /\ lastUnload.n > 1
  /\ lastUnload.threw
  /\ cache[moduleURL(lastLoad.moduleName, lastLoad.moduleFilename)]
       = lastLoad.res
  /\ ~ bundles[lastLoad.res].unloaded

\* history: the step is a create() on a handle on which unload() has taken
\* effect, for a name its module declares
IsCreateAfterUnload ==
  /\ IsCreateStep
  /\ bundles[lastCreate'.bundle].unloaded
  /\ ~ bundles[lastCreate'.bundle].factory
  /\ moduleRefs[bundles[lastCreate'.bundle].moduleRef].destroyCalls > 0
  /\ lastCreate'.componentType
       \in CreatableComponents(bundles[lastCreate'.bundle].url)

\* C17: once unload( handle ) has taken effect (unloaded flag set, factory
\* mapping discarded, module instance destroyed), handle.create( name, ... )
\* for a declared name makes no component from the destroyed module.
C17_NoCreateAfterUnload ==
  [][ IsCreateAfterUnload
        => /\ comps' = comps
           /\ \A c \in 1..Len(comps') : ~ comps'[c].moduleDestroyed ]_vars

\* history: the arguments of the load() call that built handle b
BuiltFor(b) == << bundles[b].moduleName, bundles[b].moduleFilename >>

\* the cache entry of the key that arguments a compose
EntryOf(a) == cache[moduleURL(a[1], a[2])]

\* C18 as stated: load() calls with different (moduleName, moduleFilename)
\* pairs, '#' allowed in either string, never share a cache entry: they hold
\* different handles, each resolves with a handle named by the moduleName it
\* asked for, and unloading the handle of one leaves the entry of every
\* other pair as it was.
C18_DifferentArgsNeverShare ==
  /\ [](\A a1, a2 \in LoadArgs :
          a1 # a2 /\ lastResolved[a1] # 0 => lastResolved[a1] # lastResolved[a2])
  /\ [][ IsResolveStep
           => bundles'[lastLoad'.res].name = lastLoad'.moduleName ]_vars
  /\ [][ IsUnloadStep
           => \A a \in LoadArgs :
                a # BuiltFor(lastUnload'.bundle) => EntryOf(a)' = EntryOf(a) ]_vars

\* C18 amended: load() calls whose keys moduleFilename + "#" + moduleName
\* differ never share a cache entry: they hold different handles, each
\* resolves with the handle cached under its own key, which bears the
\* moduleName of the call that built it, and unloading a handle leaves the
\* entry of every other key as it was.  (Different pairs that compose the
\* same key share one entry.)
C18_DifferentKeysNeverShare ==
  /\ [](\A a1, a2 \in LoadArgs :
          /\ moduleURL(a1[1], a1[2]) # moduleURL(a2[1], a2[2])
          /\ lastResolved[a1] # 0
          => lastResolved[a1] # lastResolved[a2])
  /\ [][ IsResolveStep
           => /\ bundles'[lastLoad'.res].url
                   = moduleURL(lastLoad'.moduleName, lastLoad'.moduleFilename)
              /\ cache'[bundles'[lastLoad'.res].url] = lastLoad'.res
              /\ bundles'[lastLoad'.res].name
                   = bundles'[lastLoad'.res].moduleName
              /\ lastLoad'.how = "created"
                   => bundles'[lastLoad'.res].name = lastLoad'.moduleName ]_vars
  /\ [][ IsUnloadStep
           => \A u \in ModuleURLs :
                u # bundles[lastUnload'.bundle].url => cache'[u] = cache[u] ]_vars

\* two pairs with different keys, one of them with '#' in the file name,
\* have resolved with their handles; the handle of one has been unloaded
\* and the entry of the other is still there
C18_Witness ==
  /\ lastResolved[<< "Lazy", "b#m" >>] # 0
  /\ EntryOf(<< "Lazy", "b#m" >>) = lastResolved[<< "Lazy", "b#m" >>]
  /\ lastUnload.acted
  /\ ~ lastUnload.threw
  /\ BuiltFor(lastUnload.bundle) = << "Lazy", "b" >>
  /\ EntryOf(<< "Lazy", "b" >>) = 0

====
